---------------------------- MODULE Spec2Model ----------------------------
(***************************************************************************)
(* Name normalisation of prenomscope: normalize_name_accent and            *)
(* normalize_name_phonetic (create_name_variants_parquet.py, duplicated in *)
(* preprocessing/process_data.py) and the batch run that adds the two      *)
(* normalised columns to the data frame.                                   *)
(*                                                                         *)
(* A Python string is a sequence of one-character tokens.  Accented        *)
(* letters are written with their entity names ("eacute" is e-acute,       *)
(* "Yuml" is capital Y-diaeresis).  A Python value is a record             *)
(* [t, s, n]: t is the type name, s the characters of a str, n the value   *)
(* of an int.                                                              *)
(***************************************************************************)
EXTENDS Integers, Sequences, FiniteSets, TLC

VARIABLES name, accent, phonetic, accent_again, phonetic_again, copies, pc,
          input_file, df, output_file, stats, stdout, exit_status

vars == <<name, accent, phonetic, accent_again, phonetic_again, copies, pc,
          input_file, df, output_file, stats, stdout, exit_status>>

fold_vars == <<name, accent, phonetic, accent_again, phonetic_again, copies>>
run_vars == <<input_file, df, output_file, stats, stdout, exit_status>>

---------------------------------------------------------------------------
(* Bounds *)

MaxLen == 3
MaxRows == 3

---------------------------------------------------------------------------
(* Python values *)

PyStr(s) == [t |-> "str", s |-> s, n |-> 0]
PyInt(k) == [t |-> "int", s |-> <<>>, n |-> k]
None == [t |-> "NoneType", s |-> <<>>, n |-> 0]
AttributeError == [t |-> "AttributeError", s |-> <<>>, n |-> 0]
Unset == [t |-> "unset", s |-> <<>>, n |-> 0]

isinstance_str(v) == v.t = "str"

\* Python truthiness of the values above: None, "" and 0 are falsy.
Truthy(v) ==
    CASE v.t = "str" -> v.s # <<>>
      [] v.t = "int" -> v.n # 0
      [] OTHER -> FALSE

---------------------------------------------------------------------------
(* Characters *)

LOWER == <<"a", "b", "c", "d", "e", "f", "g", "h", "i", "j", "k", "l", "m",
           "n", "o", "p", "q", "r", "s", "t", "u", "v", "w", "x", "y", "z",
           "agrave", "acirc", "auml", "eacute", "egrave", "ecirc", "euml",
           "iuml", "icirc", "ocirc", "ouml", "ugrave", "ucirc", "uuml",
           "yuml", "yacute", "ccedil", "ntilde", "aacute",
           "abreve", "scomma", "zdot", "zcaron", "oelig">>

UPPER == <<"A", "B", "C", "D", "E", "F", "G", "H", "I", "J", "K", "L", "M",
           "N", "O", "P", "Q", "R", "S", "T", "U", "V", "W", "X", "Y", "Z",
           "Agrave", "Acirc", "Auml", "Eacute", "Egrave", "Ecirc", "Euml",
           "Iuml", "Icirc", "Ocirc", "Ouml", "Ugrave", "Ucirc", "Uuml",
           "Yuml", "Yacute", "Ccedil", "Ntilde", "Aacute",
           "Abreve", "Scomma", "Zdot", "Zcaron", "OElig">>

AsciiLower == {LOWER[i] : i \in 1..26}
AsciiUpper == {UPPER[i] : i \in 1..26}
UpperChars == {UPPER[i] : i \in DOMAIN UPPER}

\* The eighteen accented letters of accent_patterns, lower and upper case.
AccentedLower == {LOWER[i] : i \in 27..44}
AccentedUpper == {UPPER[i] : i \in 27..44}

\* str.isspace / the regex class \s, for the characters of the model.
Whitespace == {" ", "\t", "\n", "\r", "\f", "nbsp"}

\* str.lower() on one character.
lower_char(c) ==
    IF c \in UpperChars
    THEN LOWER[CHOOSE i \in DOMAIN UPPER : UPPER[i] = c]
    ELSE c

\* str.lower()
lower(s) == [i \in DOMAIN s |-> lower_char(s[i])]

RECURSIVE lstrip_chars(_, _)
lstrip_chars(s, chars) ==
    IF s # <<>> /\ Head(s) \in chars THEN lstrip_chars(Tail(s), chars) ELSE s

RECURSIVE rstrip_chars(_, _)
rstrip_chars(s, chars) ==
    IF s # <<>> /\ s[Len(s)] \in chars
    THEN rstrip_chars(SubSeq(s, 1, Len(s) - 1), chars)
    ELSE s

\* str.strip(chars)
strip_chars(s, chars) == rstrip_chars(lstrip_chars(s, chars), chars)

\* A strip that removes one character at each end only.
strip_one(s) ==
    LET l == IF s # <<>> /\ Head(s) \in Whitespace THEN Tail(s) ELSE s
    IN  IF l # <<>> /\ l[Len(l)] \in Whitespace
        THEN SubSeq(l, 1, Len(l) - 1)
        ELSE l

\* str.strip()
strip(s) == strip_chars(s, Whitespace)

---------------------------------------------------------------------------
(* re.sub for the patterns the program uses *)

\* re.sub(r"[...]", repl, s): every character of the class replaced.
sub_class(s, class, repl) ==
    [i \in DOMAIN s |-> IF s[i] \in class THEN repl ELSE s[i]]

\* Length of the run of c that s starts with.
RECURSIVE RunLen(_, _)
RunLen(s, c) ==
    IF s # <<>> /\ Head(s) = c THEN 1 + RunLen(Tail(s), c) ELSE 0

\* re.sub(r"(.)\1+", r"\1", s): scanning from the left, a character (any but
\* newline) followed by copies of itself is replaced by one copy.
RECURSIVE sub_repetitions(_)
sub_repetitions(s) ==
    IF s = <<>> THEN <<>>
    ELSE LET c == Head(s)
             k == IF c = "\n" THEN 1 ELSE RunLen(s, c)
         IN  <<c>> \o sub_repetitions(SubSeq(s, k + 1, Len(s)))

\* re.sub(pat + "$", repl, s): $ matches at the end of the string and before
\* a newline that ends the string.
sub_suffix(s, pat, repl) ==
    LET n == Len(s)
        m == Len(pat)
    IN  IF n >= m /\ SubSeq(s, n - m + 1, n) = pat
        THEN SubSeq(s, 1, n - m) \o repl
        ELSE IF n >= m + 1 /\ s[n] = "\n" /\ SubSeq(s, n - m, n - 1) = pat
        THEN SubSeq(s, 1, n - m - 1) \o repl \o <<"\n">>
        ELSE s

\* re.sub(r"(p1|p2|...)", repl, s) for two-character literals: leftmost,
\* non-overlapping matches.
RECURSIVE sub_pairs(_, _, _)
sub_pairs(s, pats, repl) ==
    IF s = <<>> THEN <<>>
    ELSE IF Len(s) >= 2 /\ SubSeq(s, 1, 2) \in pats
    THEN repl \o sub_pairs(SubSeq(s, 3, Len(s)), pats, repl)
    ELSE <<Head(s)>> \o sub_pairs(Tail(s), pats, repl)

\* re.sub(r"h", "", s, count=1): only the first occurrence.
RECURSIVE sub_delete_first(_, _)
sub_delete_first(s, c) ==
    IF s = <<>> THEN <<>>
    ELSE IF Head(s) = c THEN Tail(s)
    ELSE <<Head(s)>> \o sub_delete_first(Tail(s), c)

\* re.sub(r"h", "", s)
sub_delete(s, c) == SelectSeq(s, LAMBDA x : x # c)

\* re.sub(r"[class]+", repl, s): every maximal run of the class replaced.
RECURSIVE sub_runs(_, _, _)
sub_runs(s, class, repl) ==
    IF s = <<>> THEN <<>>
    ELSE IF Head(s) \in class
    THEN repl \o sub_runs(lstrip_chars(s, class), class, repl)
    ELSE <<Head(s)>> \o sub_runs(Tail(s), class, repl)

---------------------------------------------------------------------------
(* create_name_variants_parquet.py: the two normalisation functions *)

\* The accent_patterns dict, in insertion order: <<class, replacement>>.
accent_patterns_without_y ==
    << <<{"agrave", "acirc", "auml"}, "a">>,
       <<{"eacute", "egrave", "ecirc", "euml"}, "e">>,
       <<{"iuml", "icirc"}, "i">>,
       <<{"ocirc", "ouml"}, "o">>,
       <<{"ugrave", "ucirc", "uuml"}, "u">>,
       <<{"ccedil"}, "c">>,
       <<{"ntilde"}, "n">> >>

accent_patterns ==
    << <<{"agrave", "acirc", "auml"}, "a">>,
       <<{"eacute", "egrave", "ecirc", "euml"}, "e">>,
       <<{"iuml", "icirc"}, "i">>,
       <<{"ocirc", "ouml"}, "o">>,
       <<{"ugrave", "ucirc", "uuml"}, "u">>,
       <<{"yuml", "yacute"}, "y">>,
       <<{"ccedil"}, "c">>,
       <<{"ntilde"}, "n">> >>

\* for pattern, replacement in accent_patterns.items(): name = re.sub(...)
RECURSIVE apply_patterns(_, _)
apply_patterns(s, patterns) ==
    IF patterns = <<>> THEN s
    ELSE apply_patterns(sub_class(s, Head(patterns)[1], Head(patterns)[2]),
                        Tail(patterns))

\* The function with the accent classes applied before lower-casing.
normalize_name_accent_lower_last(v) ==
    IF ~Truthy(v) \/ ~isinstance_str(v) THEN v
    ELSE PyStr(strip(lower(apply_patterns(v.s, accent_patterns))))

\* The function guarded by "name is None" alone: .lower() of an int raises.
normalize_name_accent_none_guard(v) ==
    IF v = None THEN v
    ELSE IF ~isinstance_str(v) THEN AttributeError
    ELSE PyStr(apply_patterns(strip(lower(v.s)), accent_patterns))

normalize_name_accent(v) ==
    IF ~Truthy(v) \/ ~isinstance_str(v) THEN v
    ELSE PyStr(apply_patterns(strip(lower(v.s)), accent_patterns))

\* The transformations ending with name.strip(" ") instead of strip("- ").
phonetic_transformations_strip_spaces(s) ==
    LET s1 == sub_class(s, {"y"}, "i")
        s2 == sub_repetitions(s1)
        s3 == sub_suffix(s2, <<"a", "r", "d">>, <<"a", "r">>)
        s4 == sub_pairs(s3, {<<"p", "h">>}, <<"f">>)
        s5 == sub_pairs(s4, {<<"c", "k">>, <<"q", "u">>}, <<"k">>)
        s6 == sub_suffix(s5, <<"i", "e">>, <<"i">>)
        s7 == sub_delete(s6, "h")
        s8 == sub_runs(s7, Whitespace, <<" ">>)
        s9 == sub_runs(s8, {"-"}, <<"-">>)
    IN  strip_chars(s9, {" "})

\* Lines 66-90 of normalize_name_phonetic, on the accent-normalised string.
phonetic_transformations(s) ==
    LET s1 == sub_class(s, {"y"}, "i")
        s2 == sub_repetitions(s1)
        s3 == sub_suffix(s2, <<"a", "r", "d">>, <<"a", "r">>)
        s4 == sub_pairs(s3, {<<"p", "h">>}, <<"f">>)
        s5 == sub_pairs(s4, {<<"c", "k">>, <<"q", "u">>}, <<"k">>)
        s6 == sub_suffix(s5, <<"i", "e">>, <<"i">>)
        s7 == sub_delete(s6, "h")
        s8 == sub_runs(s7, Whitespace, <<" ">>)
        s9 == sub_runs(s8, {"-"}, <<"-">>)
    IN  strip_chars(s9, {"-", " "})

\* The function without the call of normalize_name_accent.
normalize_name_phonetic_without_accent(v) ==
    IF ~Truthy(v) \/ ~isinstance_str(v) THEN v
    ELSE PyStr(phonetic_transformations(v.s))

normalize_name_phonetic(v) ==
    IF ~Truthy(v) \/ ~isinstance_str(v) THEN v
    ELSE PyStr(phonetic_transformations(normalize_name_accent(v).s))

---------------------------------------------------------------------------
(* The copies of the two functions in the other scripts *)

\* create_accent_agnostic_parquet.py: the classes as the file spells them.
\* Its characters are those of the accented letters' UTF-8 bytes read in
\* another encoding: A-breve followed by a second character, so that each
\* class holds A-breve and the second characters, and the last two patterns
\* are two-character literals.
normalize_name_accent_agnostic(v) ==
    IF ~Truthy(v) \/ ~isinstance_str(v) THEN v
    ELSE LET s0 == strip(lower(v.s))
             s1 == sub_class(s0, {"Abreve", "nbsp", "aogonek", "euro"}, "a")
             s2 == sub_class(s1, {"Abreve", "copyright", "scaron", "Scomma",
                                  "laquo"}, "e")
             s3 == sub_class(s2, {"Abreve", "Zdot", "zacute"}, "i")
             s4 == sub_class(s3, {"Abreve", "Zcaron", "para"}, "o")
             s5 == sub_class(s4, {"Abreve", "ccaron", "raquo", "OElig"}, "u")
             s6 == sub_class(s5, {"Abreve", "zdot", "oelig"}, "y")
             s7 == sub_pairs(s6, {<<"Abreve", "sect">>}, <<"c">>)
             s8 == sub_pairs(s7, {<<"Abreve", "plusmn">>}, <<"n">>)
         IN  PyStr(s8)

\* create_similar_names_parquet.py: accent_patterns of normalize_name.
normalize_name_accent_patterns ==
    << <<{"agrave", "acirc", "auml"}, "a">>,
       <<{"eacute", "egrave", "ecirc", "euml"}, "e">>,
       <<{"iuml", "icirc"}, "i">>,
       <<{"ocirc", "ouml"}, "o">>,
       <<{"ugrave", "ucirc", "uuml"}, "u">>,
       <<{"yuml", "yacute"}, "y">>,
       <<{"ccedil"}, "c">>,
       <<{"ntilde"}, "n">> >>

\* create_similar_names_parquet.py: normalize_name, the accent classes and
\* the phonetic rules in one function.
normalize_name(v) ==
    IF ~Truthy(v) \/ ~isinstance_str(v) THEN v
    ELSE LET s0 == apply_patterns(strip(lower(v.s)), normalize_name_accent_patterns)
             s1 == sub_class(s0, {"y"}, "i")
             s2 == sub_repetitions(s1)
             s3 == sub_suffix(s2, <<"a", "r", "d">>, <<"a", "r">>)
             s4 == sub_pairs(s3, {<<"p", "h">>}, <<"f">>)
             s5 == sub_pairs(s4, {<<"c", "k">>, <<"q", "u">>}, <<"k">>)
             s6 == sub_suffix(s5, <<"i", "e">>, <<"i">>)
             s7 == sub_delete(s6, "h")
             s8 == sub_runs(s7, Whitespace, <<" ">>)
             s9 == sub_runs(s8, {"-"}, <<"-">>)
         IN  PyStr(strip_chars(s9, {"-", " "}))

\* preprocessing/process_data.py: accent_patterns of normalize_name_accent.
process_data_accent_patterns ==
    << <<{"agrave", "acirc", "auml"}, "a">>,
       <<{"eacute", "egrave", "ecirc", "euml"}, "e">>,
       <<{"iuml", "icirc"}, "i">>,
       <<{"ocirc", "ouml"}, "o">>,
       <<{"ugrave", "ucirc", "uuml"}, "u">>,
       <<{"yuml", "yacute"}, "y">>,
       <<{"ccedil"}, "c">>,
       <<{"ntilde"}, "n">> >>

\* preprocessing/process_data.py: normalize_name_accent.
process_data_normalize_name_accent(v) ==
    IF ~Truthy(v) \/ ~isinstance_str(v) THEN v
    ELSE PyStr(apply_patterns(strip(lower(v.s)), process_data_accent_patterns))

\* preprocessing/process_data.py: normalize_name_phonetic.
process_data_normalize_name_phonetic(v) ==
    IF ~Truthy(v) \/ ~isinstance_str(v) THEN v
    ELSE LET s0 == process_data_normalize_name_accent(v).s
             s1 == sub_class(s0, {"y"}, "i")
             s2 == sub_repetitions(s1)
             s3 == sub_suffix(s2, <<"a", "r", "d">>, <<"a", "r">>)
             s4 == sub_pairs(s3, {<<"p", "h">>}, <<"f">>)
             s5 == sub_pairs(s4, {<<"c", "k">>, <<"q", "u">>}, <<"k">>)
             s6 == sub_suffix(s5, <<"i", "e">>, <<"i">>)
             s7 == sub_delete(s6, "h")
             s8 == sub_runs(s7, Whitespace, <<" ">>)
             s9 == sub_runs(s8, {"-"}, <<"-">>)
         IN  PyStr(strip_chars(s9, {"-", " "}))

---------------------------------------------------------------------------
(* The values a name is drawn from *)

\* The characters of the exhaustive inputs: the letters of every phonetic
\* rule, an upper-case letter, an upper-case accented letter, the
\* separators, a whitespace character other than the space, and a character
\* that is neither a letter nor a separator (as in "_PRENOMS_RARES").
Alphabet == {"a", "r", "d", "p", "h", "c", "k", "q", "u", "i", "e", "y",
             "H", "Yuml", " ", "-", "\t", "_"}

Strings(n) == UNION {[1..k -> Alphabet] : k \in 0..n}

Sophie == <<"S", "o", "p", "h", "i", "e">>
Quentin == <<"Q", "u", "e", "n", "t", "i", "n">>
Helio == <<"H", "eacute", "l", "i", "o">>
Marie == <<"M", "a", "r", "i", "e">>
Bernard == <<"B", "e", "r", "n", "a", "r", "d">>
Lea == <<"L", "e", "a">>
Leah == <<"L", "eacute", "a", "h">>
LeaAccent == <<"L", "eacute", "a">>

Examples == {Sophie, Quentin, Helio, Marie, Bernard, Lea, Leah, LeaAccent,
             <<"Aacute", "n", "n", "e">>, <<"Ccedil", "Ntilde", "Euml">>,
             <<"a", "r", "d", "d">>, <<"a", "r", "h", "d">>,
             <<"a", "r", "d", "-">>, <<" ", "-", "h", "h", "-", "\t">>}

Inputs ==
    {None, PyInt(0), PyInt(5)}
        \cup {PyStr(s) : s \in Strings(MaxLen)}
        \cup {PyStr(s) : s \in Examples}

---------------------------------------------------------------------------
(* The two functions applied to one value, then to their own results *)

NoFrame == [columns |-> <<>>, rows |-> <<>>]
NoStats == [original_unique |-> -1, columns |-> <<>>]
NoFile == [state |-> "absent", columns |-> <<>>, rows |-> <<>>]

RunIdle ==
    /\ input_file = NoFile
    /\ df = NoFrame
    /\ output_file = NoFile
    /\ stats = NoStats
    /\ stdout = <<>>
    /\ exit_status = -1

Init ==
    /\ name \in Inputs
    /\ accent = Unset
    /\ phonetic = Unset
    /\ accent_again = Unset
    /\ phonetic_again = Unset
    /\ copies = Unset
    /\ pc = "start"
    /\ RunIdle

CallAccent ==
    /\ pc = "start"
    /\ accent' = normalize_name_accent(name)
    /\ pc' = "accent"
    /\ UNCHANGED <<name, phonetic, accent_again, phonetic_again, copies>>
    /\ UNCHANGED run_vars

CallPhonetic ==
    /\ pc = "accent"
    /\ phonetic' = normalize_name_phonetic(name)
    /\ pc' = "phonetic"
    /\ UNCHANGED <<name, accent, accent_again, phonetic_again, copies>>
    /\ UNCHANGED run_vars

CallAgain ==
    /\ pc = "phonetic"
    /\ accent_again' = normalize_name_accent(accent)
    /\ phonetic_again' = normalize_name_phonetic(phonetic)
    /\ pc' = "again"
    /\ UNCHANGED <<name, accent, phonetic, copies>>
    /\ UNCHANGED run_vars

\* The copies of the two functions applied to the same value.
CallCopies ==
    /\ pc = "again"
    /\ copies' = [accent_agnostic |-> normalize_name_accent_agnostic(name),
                  normalize_name |-> normalize_name(name),
                  process_data_accent |-> process_data_normalize_name_accent(name),
                  process_data_phonetic |-> process_data_normalize_name_phonetic(name)]
    /\ pc' = "copies"
    /\ UNCHANGED <<name, accent, phonetic, accent_again, phonetic_again>>
    /\ UNCHANGED run_vars

Next == CallAccent \/ CallPhonetic \/ CallAgain \/ CallCopies

Spec == Init /\ [][Next]_vars

---------------------------------------------------------------------------
(* create_name_variants_parquet.py: the batch run, main() *)

\* A data frame is [columns, rows]: the column names in order and the rows
\* in order, each row a function from the column names to values.
Range(f) == {f[i] : i \in DOMAIN f}

\* df.select(col).n_unique(): the number of distinct values, null included.
n_unique(frame, col) == Cardinality({frame.rows[i][col] : i \in DOMAIN frame.rows})

\* normalization_func(value): the function object passed to map_elements.
call(normalization_func, v) ==
    CASE normalization_func = "normalize_name_accent" -> normalize_name_accent(v)
      [] normalization_func = "normalize_name_phonetic" -> normalize_name_phonetic(v)

\* with_columns giving every row the value computed for the first row.
with_column_first_row(frame, col, normalization_func) ==
    [columns |-> IF col \in Range(frame.columns) THEN frame.columns
                 ELSE Append(frame.columns, col),
     rows |-> [i \in DOMAIN frame.rows |->
                 [c \in DOMAIN frame.rows[i] \cup {col} |->
                     IF c = col
                     THEN call(normalization_func, frame.rows[1]["prenom"])
                     ELSE frame.rows[i][c]]]]

\* df.with_columns(pl.col("prenom").map_elements(f).alias(col)): a column
\* of the frame already named col is replaced in place.
with_column(frame, col, normalization_func) ==
    [columns |-> IF col \in Range(frame.columns) THEN frame.columns
                 ELSE Append(frame.columns, col),
     rows |-> [i \in DOMAIN frame.rows |->
                 [c \in DOMAIN frame.rows[i] \cup {col} |->
                     IF c = col
                     THEN call(normalization_func, frame.rows[i]["prenom"])
                     ELSE frame.rows[i][c]]]]

\* The names of the rows of an input file.
RowNames == {PyStr(LeaAccent), PyStr(Lea), PyStr(Leah),
             PyStr(<<"l", "e", "a">>), PyStr(<<>>), None}

\* A row of the input: the name and one attribute the run never reads.
InputRows ==
    {[c \in {"prenom", "valeur"} |-> IF c = "prenom" THEN p ELSE PyInt(k)] :
        p \in RowNames, k \in {1, 2}}

\* A row of a file that already has a prenom_accent_normalized column (the
\* output of an earlier run, the names edited since).
RerunRows ==
    {[c \in {"prenom_accent_normalized", "prenom"} |->
        IF c = "prenom" THEN p ELSE PyStr(<<"l", "e", "a">>)] :
        p \in {PyStr(LeaAccent), PyStr(Leah)}}

InputFiles ==
    {[state |-> "absent", columns |-> <<>>, rows |-> <<>>]}
        \cup {[state |-> "written", columns |-> <<"prenom", "valeur">>, rows |-> rs] :
                rs \in UNION {[1..k -> InputRows] : k \in 0..MaxRows}}
        \cup {[state |-> "written", columns |-> <<"valeur">>,
               rows |-> <<[c \in {"valeur"} |-> PyInt(1)]>>]}
        \cup {[state |-> "written",
               columns |-> <<"prenom_accent_normalized", "prenom">>,
               rows |-> rs] :
                rs \in UNION {[1..k -> RerunRows] : k \in 0..MaxRows}}

InitRun ==
    /\ input_file \in InputFiles
    /\ df = NoFrame
    /\ output_file = NoFile
    /\ stats = NoStats
    /\ stdout = <<>>
    /\ exit_status = -1
    /\ pc = "main"
    /\ name = None
    /\ accent = Unset
    /\ phonetic = Unset
    /\ accent_again = Unset
    /\ phonetic_again = Unset
    /\ copies = Unset

\* except Exception as e: print(f"Error: {e}", file=sys.stderr); sys.exit(1)
Except ==
    /\ stdout' = Append(stdout, "Error")
    /\ exit_status' = 1
    /\ pc' = "exit"

\* pl.read_parquet raises on a missing file; df.select('prenom') raises
\* when the frame has no prenom column.
load_and_validate_data ==
    /\ pc = "main"
    /\ IF input_file.state # "written" \/ "prenom" \notin Range(input_file.columns)
       THEN Except /\ UNCHANGED df
       ELSE /\ df' = [columns |-> input_file.columns, rows |-> input_file.rows]
            /\ pc' = "loaded"
            /\ UNCHANGED <<stdout, exit_status>>
    /\ UNCHANGED <<input_file, output_file, stats>>
    /\ UNCHANGED fold_vars

add_column_to_dataframe(at, column_name, normalization_func, then) ==
    /\ pc = at
    /\ df' = with_column(df, column_name, normalization_func)
    /\ pc' = then
    /\ UNCHANGED <<input_file, output_file, stats, stdout, exit_status>>
    /\ UNCHANGED fold_vars

add_accent_column ==
    add_column_to_dataframe("loaded", "prenom_accent_normalized",
                            "normalize_name_accent", "accent_added")

add_phonetic_column ==
    add_column_to_dataframe("accent_added", "prenom_phonetic_normalized",
                            "normalize_name_phonetic", "phonetic_added")

\* df.write_parquet(output_file) writes to the path itself: when it raises,
\* the file is absent or holds a part of the frame.
save_dataframe ==
    /\ pc = "phonetic_added"
    /\ \/ /\ output_file' = [state |-> "written", columns |-> df.columns,
                             rows |-> df.rows]
          /\ pc' = "saved"
          /\ UNCHANGED <<stdout, exit_status>>
       \/ /\ output_file' \in {NoFile,
                               [state |-> "partial", columns |-> df.columns,
                                rows |-> <<>>]}
          /\ Except
    /\ UNCHANGED <<input_file, df, stats>>
    /\ UNCHANGED fold_vars

\* One entry of the loop of print_statistics.
column_statistics(frame, original_unique, col) ==
    [column |-> col,
     unique_count |-> n_unique(frame, col),
     reduction |-> original_unique - n_unique(frame, col)]

print_statistics ==
    /\ pc = "saved"
    /\ LET original_unique == n_unique(df, "prenom")
           columns_to_compare ==
               <<"prenom_accent_normalized", "prenom_phonetic_normalized">>
           present == SelectSeq(columns_to_compare,
                                LAMBDA col : col \in Range(df.columns))
       IN  stats' = [original_unique |-> original_unique,
                     columns |-> [i \in DOMAIN present |->
                         column_statistics(df, original_unique, present[i])]]
    /\ pc' = "statistics"
    /\ UNCHANGED <<input_file, df, output_file, stdout, exit_status>>
    /\ UNCHANGED fold_vars

\* print_examples and the success message of main; the process then ends
\* with status 0.
main_success ==
    /\ pc = "statistics"
    /\ stdout' = Append(stdout, "Successfully created")
    /\ exit_status' = 0
    /\ pc' = "exit"
    /\ UNCHANGED <<input_file, df, output_file, stats>>
    /\ UNCHANGED fold_vars

NextRun ==
    \/ load_and_validate_data
    \/ add_accent_column
    \/ add_phonetic_column
    \/ save_dataframe
    \/ print_statistics
    \/ main_success

SpecRun == InitRun /\ [][NextRun]_vars

---------------------------------------------------------------------------
(* Properties of the two functions (specification Spec) *)

Chars(s) == {s[i] : i \in DOMAIN s}
NonEmptyStr(v) == v.t = "str" /\ Len(v.s) > 0
HasPair(s, a, b) == \E i \in 1..(Len(s) - 1) : s[i] = a /\ s[i + 1] = b
HasRepeat(s) == \E i \in 1..(Len(s) - 1) : s[i] = s[i + 1]
EndsWith(s, pat) ==
    Len(s) >= Len(pat) /\ SubSeq(s, Len(s) - Len(pat) + 1, Len(s)) = pat
AccentCalled == pc \in {"accent", "phonetic", "again", "copies"}
PhoneticCalled == pc \in {"phonetic", "again", "copies"}

\* C1: phonetic folding is idempotent: normalize_name_phonetic applied to
\* its own result returns that result.
C1_PhoneticIdempotent == pc = "again" => phonetic_again = phonetic

\* C2: accent folding is idempotent: normalize_name_accent applied to its
\* own result returns that result.
C2_AccentIdempotent == pc = "again" => accent_again = accent

C2_Witness ==
    /\ pc = "again"
    /\ name = PyStr(<<"\t", "Yuml", " ">>)
    /\ accent = PyStr(<<"y">>)
    /\ accent_again = PyStr(<<"y">>)

\* C3: both functions return a value that is not a non-empty string (None,
\* the empty string, an int) unchanged, and return a string for every
\* non-empty string; neither raises.
C3_TotalIdentityOnDegenerate ==
    /\ AccentCalled =>
          IF NonEmptyStr(name) THEN accent.t = "str" ELSE accent = name
    /\ PhoneticCalled =>
          IF NonEmptyStr(name) THEN phonetic.t = "str" ELSE phonetic = name

C3_Witness ==
    /\ pc = "phonetic"
    /\ name = PyInt(0)
    /\ accent = PyInt(0)
    /\ phonetic = PyInt(0)

\* The characters of names: unaccented letters, the eighteen accented
\* letters of accent_patterns in either case, the space and the hyphen.
NameAlphabet ==
    AsciiLower \cup AsciiUpper \cup AccentedLower \cup AccentedUpper
        \cup {" ", "-"}

\* C4 as stated: for every non-empty string, every character of the result
\* of normalize_name_accent is one of a..z, the space and the hyphen.
C4_OutputInPlainAlphabet ==
    (AccentCalled /\ NonEmptyStr(name)) =>
        Chars(accent.s) \subseteq AsciiLower \cup {" ", "-"}

\* C4 amended: for every non-empty string made of unaccented letters, the
\* eighteen accented letters of accent_patterns in either case, spaces and
\* hyphens, every character of the result of normalize_name_accent is one of
\* a..z, the space and the hyphen.
C4_NameInputGivesPlainAlphabet ==
    (AccentCalled /\ NonEmptyStr(name) /\ Chars(name.s) \subseteq NameAlphabet) =>
        Chars(accent.s) \subseteq AsciiLower \cup {" ", "-"}

C4_Witness ==
    /\ pc = "accent"
    /\ name = PyStr(<<"Yuml", "-", "H">>)
    /\ accent = PyStr(<<"y", "-", "h">>)

\* C5: for every non-empty string, the result of normalize_name_accent holds
\* none of the eighteen accented letters in either case, no upper-case
\* letter, and no whitespace at its start or end.
C5_NoAccentNoUpperNoOuterSpace ==
    (AccentCalled /\ NonEmptyStr(name)) =>
        /\ Chars(accent.s) \cap (AccentedLower \cup AccentedUpper) = {}
        /\ Chars(accent.s) \cap UpperChars = {}
        /\ Len(accent.s) > 0 =>
              /\ accent.s[1] \notin Whitespace
              /\ accent.s[Len(accent.s)] \notin Whitespace

C5_Witness ==
    /\ pc = "accent"
    /\ name = PyStr(<<"Ccedil", "Ntilde", "Euml">>)
    /\ accent = PyStr(<<"c", "n", "e">>)

\* C6: the result of normalize_name_phonetic on a string holds no "h".
C6_NoH ==
    (PhoneticCalled /\ name.t = "str") => "h" \notin Chars(phonetic.s)

C6_Witness ==
    /\ pc = "phonetic"
    /\ name = PyStr(<<"h", "H", "h">>)
    /\ accent = PyStr(<<"h", "h", "h">>)
    /\ phonetic = PyStr(<<>>)

\* C7: the number of distinct phonetic-folded names is at most the number
\* of distinct accent-folded names, which is at most the number of distinct
\* original names, so every reduction print_statistics computes is >= 0.
C7_MonotoneReduction ==
    stats # NoStats =>
        /\ Len(stats.columns) = 2
        /\ \A i \in DOMAIN stats.columns : stats.columns[i].reduction >= 0
        /\ stats.columns[2].unique_count <= stats.columns[1].unique_count
        /\ stats.columns[1].unique_count <= stats.original_unique
        /\ stats.original_unique = n_unique(input_file, "prenom")

C7_Witness ==
    /\ pc = "statistics"
    /\ Len(df.rows) = 3
    /\ stats.original_unique = 3
    /\ stats.columns[1].unique_count = 2
    /\ stats.columns[1].reduction = 1
    /\ stats.columns[2].unique_count = 1
    /\ stats.columns[2].reduction = 2

---------------------------------------------------------------------------
(* The rules 2 to 9 of the phonetic folder as the specification lists them *)

RECURSIVE Flatten(_)
Flatten(parts) ==
    IF parts = <<>> THEN <<>> ELSE Head(parts) \o Flatten(Tail(parts))

Letters == Chars(LOWER) \cup Chars(UPPER)

\* Every occurrence of one of the two-letter groups replaced.
ReplaceGroups(s, groups, repl) ==
    LET starts(i) == i >= 1 /\ i < Len(s) /\ <<s[i], s[i + 1]>> \in groups
    IN  Flatten([i \in DOMAIN s |->
            IF starts(i) THEN repl
            ELSE IF starts(i - 1) THEN <<>>
            ELSE <<s[i]>>])

\* A trailing group replaced.
ReplaceTrailing(s, group, repl) ==
    IF EndsWith(s, group) THEN SubSeq(s, 1, Len(s) - Len(group)) \o repl ELSE s

Rule2(s) == [i \in DOMAIN s |-> IF s[i] = "y" THEN "i" ELSE s[i]]

\* Runs of identical consecutive letters keep their first letter.
Rule3(s) ==
    Flatten([i \in DOMAIN s |->
        IF i > 1 /\ s[i] = s[i - 1] /\ s[i] \in Letters THEN <<>> ELSE <<s[i]>>])

Rule4(s) == ReplaceTrailing(s, <<"a", "r", "d">>, <<"a", "r">>)
Rule5(s) == ReplaceGroups(s, {<<"p", "h">>}, <<"f">>)
Rule6(s) == ReplaceGroups(s, {<<"c", "k">>, <<"q", "u">>}, <<"k">>)
Rule7(s) == ReplaceTrailing(s, <<"i", "e">>, <<"i">>)
Rule8(s) == Flatten([i \in DOMAIN s |-> IF s[i] = "h" THEN <<>> ELSE <<s[i]>>])

Rule9(s) ==
    LET spaced == Flatten([i \in DOMAIN s |->
                    IF s[i] \notin Whitespace THEN <<s[i]>>
                    ELSE IF i > 1 /\ s[i - 1] \in Whitespace THEN <<>>
                    ELSE <<" ">>])
        hyphened == Flatten([i \in DOMAIN spaced |->
                    IF i > 1 /\ spaced[i] = "-" /\ spaced[i - 1] = "-" THEN <<>>
                    ELSE <<spaced[i]>>])
        kept == {i \in DOMAIN hyphened : hyphened[i] \notin {" ", "-"}}
    IN  IF kept = {} THEN <<>>
        ELSE SubSeq(hyphened,
                    CHOOSE i \in kept : \A j \in kept : i <= j,
                    CHOOSE i \in kept : \A j \in kept : i >= j)

Rules2To9(s) == Rule9(Rule8(Rule7(Rule6(Rule5(Rule4(Rule3(Rule2(s))))))))

\* C8: normalize_name_phonetic returns the result of the nine rules in their
\* listed order (rule 3 collapsing runs of identical letters), with
\* Sophie -> sofi, Quentin -> kentin, Helio -> elio, Marie -> mari,
\* Bernard -> bernar, and normalize_name_accent("Sophie") = "sophie".
C8_NineRulesInOrder ==
    (PhoneticCalled /\ NonEmptyStr(name)) =>
        /\ phonetic = PyStr(Rules2To9(accent.s))
        /\ name = PyStr(Sophie) =>
              /\ accent = PyStr(<<"s", "o", "p", "h", "i", "e">>)
              /\ phonetic = PyStr(<<"s", "o", "f", "i">>)
        /\ name = PyStr(Quentin) =>
              phonetic = PyStr(<<"k", "e", "n", "t", "i", "n">>)
        /\ name = PyStr(Helio) => phonetic = PyStr(<<"e", "l", "i", "o">>)
        /\ name = PyStr(Marie) => phonetic = PyStr(<<"m", "a", "r", "i">>)
        /\ name = PyStr(Bernard) =>
              phonetic = PyStr(<<"b", "e", "r", "n", "a", "r">>)

\* C9: the result of normalize_name_phonetic holds no "y", no two adjacent
\* identical characters, no "ph", no "ck", no "qu", no "h", and ends neither
\* in "ard" nor in "ie".
C9_NoRulePatternLeft ==
    (PhoneticCalled /\ name.t = "str") =>
        /\ "y" \notin Chars(phonetic.s)
        /\ ~HasRepeat(phonetic.s)
        /\ ~HasPair(phonetic.s, "p", "h")
        /\ ~HasPair(phonetic.s, "c", "k")
        /\ ~HasPair(phonetic.s, "q", "u")
        /\ "h" \notin Chars(phonetic.s)
        /\ ~EndsWith(phonetic.s, <<"a", "r", "d">>)
        /\ ~EndsWith(phonetic.s, <<"i", "e">>)

\* C10: every character of normalize_name_phonetic(s) is a character of
\* normalize_name_accent(s) or one of i, f, k and the space; the result
\* neither starts nor ends with a space or a hyphen and holds neither two
\* adjacent spaces nor two adjacent hyphens.
C10_OutputAlphabetAndSeparators ==
    (PhoneticCalled /\ NonEmptyStr(name)) =>
        /\ Chars(phonetic.s) \subseteq Chars(accent.s) \cup {"i", "f", "k", " "}
        /\ Len(phonetic.s) > 0 =>
              /\ phonetic.s[1] \notin {" ", "-"}
              /\ phonetic.s[Len(phonetic.s)] \notin {" ", "-"}
        /\ ~HasPair(phonetic.s, " ", " ")
        /\ ~HasPair(phonetic.s, "-", "-")

C10_Witness ==
    /\ pc = "phonetic"
    /\ name = PyStr(<<"p", "h", "-">>)
    /\ accent = PyStr(<<"p", "h", "-">>)
    /\ phonetic = PyStr(<<"f">>)

---------------------------------------------------------------------------
(* Properties of the batch run (specification SpecRun) *)

NewColumns == <<"prenom_accent_normalized", "prenom_phonetic_normalized">>

\* The rows of the written file are the rows of the input in the same
\* order, the columns in `kept` unchanged, and the two normalised columns
\* computed from the prenom of the same row.
RowsMapped(kept) ==
    /\ Len(output_file.rows) = Len(input_file.rows)
    /\ \A i \in DOMAIN output_file.rows :
          /\ DOMAIN output_file.rows[i] = Range(output_file.columns)
          /\ \A c \in kept : output_file.rows[i][c] = input_file.rows[i][c]
          /\ output_file.rows[i]["prenom_accent_normalized"]
                = normalize_name_accent(input_file.rows[i]["prenom"])
          /\ output_file.rows[i]["prenom_phonetic_normalized"]
                = normalize_name_phonetic(input_file.rows[i]["prenom"])

C12_FailOrCompleteAtomically ==
    /\ pc = "exit" =>
          \/ exit_status = 1 /\ stdout = <<"Error">>
          \/ exit_status = 0 /\ stdout = <<"Successfully created">>
    /\ "Successfully created" \in Range(stdout) =>
          /\ Range(NewColumns) \subseteq Range(df.columns)
          /\ output_file = [state |-> "written", columns |-> df.columns,
                            rows |-> df.rows]
          /\ stats # NoStats
    /\ output_file.state \in {"absent", "written"}
    /\ output_file.state = "written" =>
          output_file.columns = df.columns /\ output_file.rows = df.rows

---------------------------------------------------------------------------
(* The copies against the functions (specification Spec) *)

\* C13: normalize_name_accent_agnostic returns what normalize_name_accent
\* returns (in create_name_variants_parquet.py and in process_data.py), and
\* normalize_name returns what normalize_name_phonetic returns in both
\* files, for every string of letters, accented letters, spaces and hyphens.
C13_CopiesAgree ==
    (pc = "copies" /\ name.t = "str" /\ Chars(name.s) \subseteq NameAlphabet) =>
        /\ copies.accent_agnostic = accent
        /\ copies.process_data_accent = accent
        /\ copies.normalize_name = phonetic
        /\ copies.process_data_phonetic = phonetic

===========================================================================
